---------------------------- MODULE Spec2Model ----------------------------
(***************************************************************************)
(* The synthetic dataset generator of the sales analytics dashboard        *)
(* (python_code/data_generation.py): four generators that draw from the    *)
(* process-wide `random` module, and the script that calls them, writes    *)
(* the four CSV files and prints a summary.                                *)
(*                                                                         *)
(* Number representation.  Python floats are modelled in fixed point:      *)
(*   money        in mills  (1/1000 of a currency unit),                   *)
(*   fractions    in basis points (1/10000),                               *)
(*   round(x, 2)  yields cents, round(x, 3) thousandths, round(x, 4) basis *)
(*   points.  round() is Python's: nearest, ties to even.                  *)
(* Datetimes are <<year, month, day>>; timedelta arithmetic goes through   *)
(* the proleptic ordinal, as datetime does.                                *)
(***************************************************************************)
EXTENDS Integers, Sequences, FiniteSets, TLC

VARIABLES
    pc,             \* position of the script: which statement runs next
    n_sales,        \* argument n of generate_sales_data
    n_cust,         \* argument n of generate_customer_data
    npSeed,         \* state of numpy's global generator (np.random.seed)
    rngSeed,        \* the state the `random` module was initialised with
    rng,            \* current state of the `random` module's generator
    sales_df,       \* the four module-level DataFrames
    operations_df,
    financial_df,
    customer_df,
    files,          \* the current directory: file name -> content
    stdout,         \* what the script has printed
    prev,           \* history: seed and arguments of the previous run
    inp,            \* one loop iteration on its own: its index and raw numbers
    data            \* one loop iteration on its own: the generator's list `data`

vars == <<pc, n_sales, n_cust, npSeed, rngSeed, rng, sales_df, operations_df,
          financial_df, customer_df, files, stdout, prev, inp, data>>

runVars == <<pc, n_sales, n_cust, npSeed, rngSeed, rng, sales_df,
             operations_df, financial_df, customer_df, files, stdout, prev>>

----------------------------------------------------------------------------
(* Bounds of the model *)

\* largest row count passed to generate_sales_data / generate_customer_data
MaxRows == 2

\* the `random` module is seeded from OS entropy: seeds 0..MaxSeed
MaxSeed == 3

\* calendar days of the operations date range that are modelled
OpsDays == 2

\* calendar months of the financial date range that are modelled: more than
\* a year of them, so that the range runs over a turn of the year
FinMonths == 13

----------------------------------------------------------------------------
(* Arithmetic helpers *)

Max(a, b) == IF a >= b THEN a ELSE b

Abs(a) == IF a >= 0 THEN a ELSE 0 - a

\* Python round(): the integer nearest to x / d, ties to the even one
RoundHalfEven(x, d) ==
    LET q == x \div d
        r == x % d
    IN  IF 2 * r < d THEN q
        ELSE IF 2 * r > d THEN q + 1
        ELSE IF q % 2 = 0 THEN q ELSE q + 1

\* round(x, 2) of a money amount in mills: cents
Round2(x) == RoundHalfEven(x, 10)

\* float product a * (f / 10000), rounded to the nearest mill; split so that
\* no intermediate leaves 32 bits
FMul(a, f) ==
    (a \div 10000) * f + RoundHalfEven((a % 10000) * f, 10000)

----------------------------------------------------------------------------
(* datetime and timedelta *)

IsLeap(y) == (y % 4 = 0 /\ y % 100 # 0) \/ y % 400 = 0

DaysInMonth(y, m) ==
    IF m = 2 THEN (IF IsLeap(y) THEN 29 ELSE 28)
    ELSE IF m \in {4, 6, 9, 11} THEN 30 ELSE 31

DaysInYear(y) == IF IsLeap(y) THEN 366 ELSE 365

RECURSIVE DaysBeforeYear(_)
\* days from 2020-01-01 to y-01-01
DaysBeforeYear(y) ==
    IF y <= 2020 THEN 0 ELSE DaysBeforeYear(y - 1) + DaysInYear(y - 1)

RECURSIVE DaysBeforeMonth(_, _)
DaysBeforeMonth(y, m) ==
    IF m <= 1 THEN 0 ELSE DaysBeforeMonth(y, m - 1) + DaysInMonth(y, m - 1)

\* datetime.toordinal, counted from 2020-01-01
ToOrdinal(dt) == DaysBeforeYear(dt[1]) + DaysBeforeMonth(dt[1], dt[2]) + dt[3] - 1

RECURSIVE OrdToDate(_, _, _)
OrdToDate(y, m, k) ==
    IF k >= DaysInYear(y) /\ m = 1 THEN OrdToDate(y + 1, 1, k - DaysInYear(y))
    ELSE IF k >= DaysInMonth(y, m) THEN OrdToDate(y, m + 1, k - DaysInMonth(y, m))
    ELSE <<y, m, k + 1>>

\* datetime.fromordinal
FromOrdinal(k) == OrdToDate(2020, 1, k)

\* dt + timedelta(days=k)
AddDays(dt, k) == FromOrdinal(ToOrdinal(dt) + k)

\* (a - b).days
DaysBetween(a, b) == ToOrdinal(a) - ToOrdinal(b)

----------------------------------------------------------------------------
(* The `random` module: one process-wide generator.  Every call advances   *)
(* its state once; the value returned is a function of the new state, a    *)
(* raw number in 0..RngMod-1 standing for random() = raw / RngMod.         *)

RngMod == 32768

RngMul == 25173

RngInc == 13849

\* the state after one call
RngNext(x) == (x * RngMul + RngInc) % RngMod

\* <<a, c>> for 2h calls (odd = 0) or 2h + 1 calls (odd = 1), given <<a, c>>
\* for h calls
RngDouble(h, odd) ==
    IF odd = 0
    THEN <<(h[1] * h[1]) % RngMod, (h[1] * h[2] + h[2]) % RngMod>>
    ELSE <<(((h[1] * h[1]) % RngMod) * RngMul) % RngMod,
           RngNext((h[1] * h[2] + h[2]) % RngMod)>>

RECURSIVE RngSteps(_)
\* k calls in one: <<a, c>> with state x becoming (a * x + c) % RngMod,
\* by halving k; the half is computed once, as the element of a set
RngSteps(k) ==
    IF k <= 0 THEN <<1, 0>>
    ELSE CHOOSE r \in {RngDouble(h, k % 2) : h \in {RngSteps(k \div 2)}} : TRUE

\* the state after k calls
RngAt(x, k) == CHOOSE y \in {(m[1] * x + m[2]) % RngMod : m \in {RngSteps(k)}} : TRUE

\* the raw numbers of the next k calls, in call order
Raws(x, k) == [j \in 1..k |-> RngAt(x, j)]

\* random.randint(a, b): an integer of a..b
RandInt(raw, a, b) == a + (raw * (b - a + 1)) \div RngMod

\* random.choice(seq)
Choice(raw, seq) == seq[1 + (raw * Len(seq)) \div RngMod]

\* random.uniform(a, b) = a + (b - a) * random(), in the unit of a and b
Uniform(raw, a, b) ==
    a + ((b - a) \div RngMod) * raw + (((b - a) % RngMod) * raw) \div RngMod

----------------------------------------------------------------------------
(* pandas *)

\* pd.DataFrame(data) of a list of dicts: the columns are the keys of the
\* dicts, so an empty list gives a frame with no columns at all
DataFrame(dicts, keys) ==
    [columns |-> IF Len(dicts) = 0 THEN <<>> ELSE keys, rows |-> dicts]

\* df.to_csv(path, index=False): a header line of the column names, then
\* one line per row with the cells in column order
ToCsv(df) ==
    [header |-> df.columns,
     lines  |-> [k \in 1..Len(df.rows) |->
                   [j \in 1..Len(df.columns) |-> df.rows[k][df.columns[j]]]]]

\* len(df)
DfLen(df) == Len(df.rows)

----------------------------------------------------------------------------
(* generate_customer_data *)

CustomerColumns ==
    <<"Customer_ID", "Signup_Date", "Total_Purchases", "Avg_Order_Value",
      "Lifetime_Value", "Days_Since_Last_Purchase", "Churned",
      "Satisfaction_Score", "Support_Tickets", "Segment">>

\* calls to `random` per loop iteration
CustomerCalls == 7

\* variant: the comparison written >= instead of >
ChurnedFrom180(days_since_last) == IF days_since_last >= 180 THEN 1 ELSE 0

\* churned = 1 if days_since_last > 180 else 0
Churned(days_since_last) == IF days_since_last > 180 THEN 1 ELSE 0

\* one iteration of the loop: the dict appended for index i, given the raw
\* numbers of its seven calls
CustomerRow(i, raws) ==
    LET signup_date     == AddDays(<<2020, 1, 1>>, RandInt(raws[1], 0, 1460))
        purchases       == RandInt(raws[2], 1, 50)
        avg_order       == Uniform(raws[3], 50000, 500000)
        lifetime_value  == purchases * avg_order
        days_since_last == RandInt(raws[4], 0, 365)
    IN  [Customer_ID              |-> <<"CUST-", i + 1000>>,
         Signup_Date              |-> signup_date,
         Total_Purchases          |-> purchases,
         Avg_Order_Value          |-> Round2(avg_order),
         Lifetime_Value           |-> Round2(lifetime_value),
         Days_Since_Last_Purchase |-> days_since_last,
         Churned                  |-> Churned(days_since_last),
         Satisfaction_Score       |-> RandInt(raws[5], 1, 5),
         Support_Tickets          |-> RandInt(raws[6], 0, 10),
         Segment                  |-> Choice(raws[7],
                                        <<"High Value", "Medium Value", "Low Value">>)]

\* for i in range(n): range(n) is empty for n <= 0
CustomerLoop(n, x) ==
    [i \in 1..Max(n, 0) |->
        CustomerRow(i - 1, Raws(RngAt(x, CustomerCalls * (i - 1)), CustomerCalls))]

\* the frame returned and the generator state left behind
GenerateCustomerData(n, x) ==
    [df  |-> DataFrame(CustomerLoop(n, x), CustomerColumns),
     rng |-> RngAt(x, CustomerCalls * Max(n, 0))]

----------------------------------------------------------------------------
(* generate_operations_data *)

OperationsColumns ==
    <<"Date", "Shift", "Units_Produced", "Defects", "Defect_Rate",
      "Downtime_Minutes", "Efficiency", "Energy_Used", "Labor_Hours">>

Shifts == <<"Morning", "Evening", "Night">>

OperationsCalls == 6

\* pd.date_range(start, end, freq='D'): every day from start to end
DateRangeD(start, end) ==
    [k \in 1..(DaysBetween(end, start) + 1) |-> AddDays(start, k - 1)]

\* the last day of the modelled range (the script's is 2024-12-31)
OperationsEnd == AddDays(<<2023, 1, 1>>, OpsDays - 1)

\* defects = int(production * random.uniform(0.01, 0.05)); rate in basis points
Defects(production, rate) == (production * rate) \div 10000

\* variant: the rate cut off after four decimals instead of rounded
DefectRateTruncated(defects, production) == (defects * 10000) \div production

\* round(defects/production, 4), in basis points
DefectRate(defects, production) == RoundHalfEven(defects * 10000, production)

\* the dict appended for one (date, shift), given the raw numbers of its calls
OperationsRow(date, shift, raws) ==
    LET production == RandInt(raws[1], 800, 1200)
        defects    == Defects(production, Uniform(raws[2], 100, 500))
        downtime   == RandInt(raws[3], 0, 120)
    IN  [Date             |-> date,
         Shift            |-> shift,
         Units_Produced   |-> production,
         Defects          |-> defects,
         Defect_Rate      |-> DefectRate(defects, production),
         Downtime_Minutes |-> downtime,
         Efficiency       |-> RoundHalfEven(Uniform(raws[4], 7500, 9800), 10),
         Energy_Used      |-> RandInt(raws[5], 500, 800),
         Labor_Hours      |-> RandInt(raws[6], 150, 200)]

\* variant: the inner loop alternates between the first two shifts only
OperationsLoopTwoShifts(dates, x) ==
    [k \in 1..(Len(dates) * Len(Shifts)) |->
        OperationsRow(dates[1 + (k - 1) \div Len(Shifts)],
                      Shifts[1 + ((k - 1) % 2)],
                      Raws(RngAt(x, OperationsCalls * (k - 1)), OperationsCalls))]

\* for date in dates: for shift in [...]: the k-th appended dict, k from 1
OperationsLoop(dates, x) ==
    [k \in 1..(Len(dates) * Len(Shifts)) |->
        OperationsRow(dates[1 + (k - 1) \div Len(Shifts)],
                      Shifts[1 + ((k - 1) % Len(Shifts))],
                      Raws(RngAt(x, OperationsCalls * (k - 1)), OperationsCalls))]

\* the parameter n is never read
GenerateOperationsData(n, x) ==
    LET dates == DateRangeD(<<2023, 1, 1>>, OperationsEnd)
    IN  [df  |-> DataFrame(OperationsLoop(dates, x), OperationsColumns),
         rng |-> RngAt(x, OperationsCalls * Len(dates) * Len(Shifts))]

----------------------------------------------------------------------------
(* generate_financial_data *)

FinancialColumns ==
    <<"Month", "Revenue", "COGS", "Operating_Expenses", "Gross_Profit",
      "Net_Profit", "Budget_Revenue", "Cash_Flow">>

FinancialCalls == 5

\* the month k months after dt's, first day
AddMonths(dt, k) ==
    <<dt[1] + (dt[2] - 1 + k) \div 12, 1 + ((dt[2] - 1 + k) % 12), 1>>

\* number of month starts in start..end, start being a first of month
MonthsBetween(start, end) == (end[1] - start[1]) * 12 + end[2] - start[2] + 1

\* pd.date_range(start, end, freq='MS'): the first day of every month
DateRangeMS(start, end) ==
    [k \in 1..MonthsBetween(start, end) |-> AddMonths(start, k - 1)]

\* the last day of the modelled range (the script's is 2024-12-31)
FinancialEnd ==
    LET last == AddMonths(<<2022, 1, 1>>, FinMonths - 1)
    IN  <<last[1], last[2], DaysInMonth(last[1], last[2])>>

base_revenue == 500000000

\* variant: the trend grows by 1.5% of its own value per month index
RECURSIVE TrendCompounding(_)
TrendCompounding(i) ==
    IF i = 0 THEN base_revenue ELSE FMul(TrendCompounding(i - 1), 10150)

\* trend = base_revenue * (1 + 0.015 * i), in mills
Trend(i) == base_revenue + (base_revenue \div 1000) * 15 * i

\* np.sin(2 * np.pi * i / 12), in basis points
Sin12(i) ==
    <<0, 5000, 8660, 10000, 8660, 5000, 0, -5000, -8660, -10000, -8660, -5000>>[1 + (i % 12)]

\* seasonal = trend * (1 + 0.1 * sin(...))
Seasonal(i) == FMul(Trend(i), 10000 + Sin12(i) \div 10)

\* 'Gross_Profit': round(revenue - cogs, 2)
GrossProfit(revenue, cogs) == Round2(revenue - cogs)

\* 'Net_Profit': round(profit, 2) with profit = revenue - cogs - opex
NetProfit(revenue, cogs, opex) == Round2(revenue - cogs - opex)

\* variant: COGS drawn between 50% and 65% of revenue
FinancialRowCheapGoods(i, month, raws) ==
    LET revenue == Seasonal(i) + Uniform(raws[1], -20000000, 30000000)
        cogs    == FMul(revenue, Uniform(raws[2], 5000, 6500))
        opex    == FMul(revenue, Uniform(raws[3], 2000, 3000))
        profit  == revenue - cogs - opex
    IN  [Month              |-> month,
         Revenue            |-> Round2(revenue),
         COGS               |-> Round2(cogs),
         Operating_Expenses |-> Round2(opex),
         Gross_Profit       |-> GrossProfit(revenue, cogs),
         Net_Profit         |-> NetProfit(revenue, cogs, opex),
         Budget_Revenue     |-> Round2(FMul(revenue, Uniform(raws[4], 9000, 11000))),
         Cash_Flow          |-> Round2(FMul(profit, Uniform(raws[5], 8000, 12000)))]

\* the dict appended for month index i, given the raw numbers of its calls
FinancialRow(i, month, raws) ==
    LET revenue == Seasonal(i) + Uniform(raws[1], -20000000, 30000000)
        cogs    == FMul(revenue, Uniform(raws[2], 5500, 6500))
        opex    == FMul(revenue, Uniform(raws[3], 2000, 3000))
        profit  == revenue - cogs - opex
    IN  [Month              |-> month,
         Revenue            |-> Round2(revenue),
         COGS               |-> Round2(cogs),
         Operating_Expenses |-> Round2(opex),
         Gross_Profit       |-> GrossProfit(revenue, cogs),
         Net_Profit         |-> NetProfit(revenue, cogs, opex),
         Budget_Revenue     |-> Round2(FMul(revenue, Uniform(raws[4], 9000, 11000))),
         Cash_Flow          |-> Round2(FMul(profit, Uniform(raws[5], 8000, 12000)))]

\* variant: the months are walked from the last to the first
FinancialLoopBackwards(months, x) ==
    [k \in 1..Len(months) |->
        FinancialRow(k - 1, months[Len(months) + 1 - k],
                     Raws(RngAt(x, FinancialCalls * (k - 1)), FinancialCalls))]

\* for i, month in enumerate(months); the raw numbers of a row are bound as
\* the element of a one-element set, so that they are computed once
FinancialLoop(months, x) ==
    [k \in 1..Len(months) |->
        CHOOSE row \in {FinancialRow(k - 1, months[k], raws) :
                           raws \in {Raws(RngAt(x, FinancialCalls * (k - 1)),
                                          FinancialCalls)}} : TRUE]

\* months is bound as the element of a one-element set, so that it is
\* computed once
GenerateFinancialData(x) ==
    CHOOSE r \in {[df  |-> DataFrame(FinancialLoop(months, x), FinancialColumns),
                   rng |-> RngAt(x, FinancialCalls * Len(months))] :
                     months \in {DateRangeMS(<<2022, 1, 1>>, FinancialEnd)}} : TRUE

----------------------------------------------------------------------------
(* generate_sales_data *)

SalesColumns ==
    <<"Order_ID", "Order_Date", "Ship_Date", "Category", "Sub_Category",
      "Product_Name", "Sales", "Quantity", "Discount", "Profit", "Region",
      "Segment", "Customer_ID", "State">>

categories == <<"Technology", "Furniture", "Office Supplies">>

\* variant: furniture rows draw from the technology list
subcatsFurnitureAsTechnology ==
    [c \in {"Technology", "Furniture", "Office Supplies"} |->
        CASE c = "Office Supplies" -> <<"Paper", "Binders", "Art", "Storage", "Labels">>
          [] OTHER -> <<"Phones", "Computers", "Accessories", "Copiers">>]

subcats ==
    [c \in {"Technology", "Furniture", "Office Supplies"} |->
        CASE c = "Technology" -> <<"Phones", "Computers", "Accessories", "Copiers">>
          [] c = "Furniture"  -> <<"Chairs", "Tables", "Bookcases", "Furnishings">>
          [] OTHER            -> <<"Paper", "Binders", "Art", "Storage", "Labels">>]

regions == <<"East", "West", "Central", "South">>

segments == <<"Consumer", "Corporate", "Home Office">>

States ==
    <<"California", "Texas", "New York", "Florida", "Illinois", "Pennsylvania",
      "Ohio", "Georgia">>

\* variant: the greatest discount is 30%
DiscountsUpToThirty == <<0, 1000, 1500, 2000, 3000>>

\* the discounts of random.choice([0, 0.1, 0.15, 0.2, 0.25]), in basis points
Discounts == <<0, 1000, 1500, 2000, 2500>>

\* calls to `random` per loop iteration (the order dates are drawn before)
SalesCalls == 12

\* dates = [start + timedelta(days=random.randint(0, 1095)) for _ in range(n)]
OrderDates(n, x) ==
    [i \in 1..Max(n, 0) |-> AddDays(<<2022, 1, 1>>, RandInt(RngAt(x, i), 0, 1095))]

\* variant: every category priced as office supplies
PriceFlat(cat, raw) == Uniform(raw, 5000, 300000)

\* pricing logic based on category, in mills
Price(cat, raw) ==
    IF cat = "Technology" THEN Uniform(raw, 50000, 2000000)
    ELSE IF cat = "Furniture" THEN Uniform(raw, 100000, 1500000)
    ELSE Uniform(raw, 5000, 300000)

\* variant: the delay drawn from 0..7
ShipDateSameDay(order_date, raw) == AddDays(order_date, RandInt(raw, 0, 7))

\* 'Ship_Date': dates[i] + timedelta(days=random.randint(1, 7))
ShipDate(order_date, raw) == AddDays(order_date, RandInt(raw, 1, 7))

\* the dict appended for index i, given its order date and the raw numbers
\* of its twelve calls
SalesRow(i, order_date, raws) ==
    LET cat      == Choice(raws[1], categories)
        subcat   == Choice(raws[2], subcats[cat])
        region   == Choice(raws[3], regions)
        segment  == Choice(raws[4], segments)
        price    == Price(cat, raws[5])
        qty      == RandInt(raws[6], 1, 10)
        discount == Choice(raws[7], Discounts)
        sales    == FMul(price * qty, 10000 - discount)
        profit   == FMul(sales, Uniform(raws[8], 500, 3500))
    IN  [Order_ID     |-> <<"ORD-", i + 1000>>,
         Order_Date   |-> order_date,
         Ship_Date    |-> ShipDate(order_date, raws[9]),
         Category     |-> cat,
         Sub_Category |-> subcat,
         Product_Name |-> <<subcat, RandInt(raws[10], 100, 999)>>,
         Sales        |-> Round2(sales),
         Quantity     |-> qty,
         Discount     |-> discount,
         Profit       |-> Round2(profit),
         Region       |-> region,
         Segment      |-> segment,
         Customer_ID  |-> <<"CUST-", RandInt(raws[11], 1000, 9999)>>,
         State        |-> Choice(raws[12], States)]

\* variant: every row is numbered from the start of the loop
SalesLoopSameIndex(n, dates, x) ==
    [i \in 1..Max(n, 0) |->
        SalesRow(0, dates[i],
                 Raws(RngAt(x, SalesCalls * (i - 1)), SalesCalls))]

\* variant: the loop runs one index too far
SalesLoopOneMore(n, dates, x) ==
    [i \in 1..(Max(n, 0) + 1) |->
        SalesRow(i - 1, IF i <= Len(dates) THEN dates[i] ELSE <<2022, 1, 1>>,
                 Raws(RngAt(x, SalesCalls * (i - 1)), SalesCalls))]

\* for i in range(n): range(n) is empty for n <= 0; x is the generator
\* state after the order dates were drawn
SalesLoop(n, dates, x) ==
    [i \in 1..Max(n, 0) |->
        SalesRow(i - 1, dates[i],
                 Raws(RngAt(x, SalesCalls * (i - 1)), SalesCalls))]

\* dates and the generator state x1 after drawing them are bound as the
\* elements of one-element sets, so that each is computed once
GenerateSalesData(n, x) ==
    CHOOSE r \in UNION {{[df  |-> DataFrame(SalesLoop(n, dates, x1), SalesColumns),
                          rng |-> RngAt(x1, SalesCalls * Max(n, 0))] :
                            x1 \in {RngAt(x, Len(dates))}} :
                         dates \in {OrderDates(n, x)}} : TRUE

----------------------------------------------------------------------------
(* The script: module-level statements, in order *)

\* a module-level name that is not bound yet
NoFrame == [columns |-> <<"<unbound>">>, rows |-> <<>>]

\* no earlier run of the script in this directory
NoPrev == [npSeed |-> -1, seed |-> -1, n_sales |-> -1, n_cust |-> -1, ran |-> FALSE]

\* the row counts handed to the generators: the script passes 5000 and 1500;
\* the functions accept any integer
RowCounts == -1..MaxRows

Seeds == 0..MaxSeed

Exists(name) == name \in DOMAIN files

\* the directory after `name` was written with `content`
Written(name, content) ==
    [f \in DOMAIN files \cup {name} |-> IF f = name THEN content ELSE files[f]]

\* a write that failed part-way: the file holds the header and the first k lines
Partial(content, k) ==
    [header |-> content.header, lines |-> SubSeq(content.lines, 1, k)]

\* the state of a fresh process at line 9: numpy seeded with 42, `random`
\* seeded by the interpreter from OS entropy, the first message printed
ProcessStart ==
    /\ pc = "sales"
    /\ npSeed = 42
    /\ rngSeed \in Seeds
    /\ rng = rngSeed
    /\ n_sales \in RowCounts
    /\ n_cust \in RowCounts
    /\ sales_df = NoFrame
    /\ operations_df = NoFrame
    /\ financial_df = NoFrame
    /\ customer_df = NoFrame
    /\ stdout = << <<"Generating datasets...">> >>

Init ==
    /\ ProcessStart
    /\ files = [f \in {} |-> NoFrame]
    /\ prev = NoPrev
    /\ inp = <<>>
    /\ data = <<>>

\* lines 158-159
CallGenerateSales ==
    /\ pc = "sales"
    /\ LET r == GenerateSalesData(n_sales, rng)
       IN  /\ sales_df' = r.df
           /\ rng' = r.rng
    /\ stdout' = Append(stdout, <<"Creating sales data...">>)
    /\ pc' = "operations"
    /\ UNCHANGED <<n_sales, n_cust, npSeed, rngSeed, operations_df,
                   financial_df, customer_df, files, prev, inp, data>>

\* variant: the script goes from the operations data straight to the customers
CallGenerateOperationsSkipsFinancial ==
    /\ pc = "operations"
    /\ LET r == GenerateOperationsData(2000, rng)
       IN  /\ operations_df' = r.df
           /\ rng' = r.rng
    /\ stdout' = Append(stdout, <<"Creating operations data...">>)
    /\ pc' = "customers"
    /\ UNCHANGED <<n_sales, n_cust, npSeed, rngSeed, sales_df,
                   financial_df, customer_df, files, prev, inp, data>>

\* lines 161-162
CallGenerateOperations ==
    /\ pc = "operations"
    /\ LET r == GenerateOperationsData(2000, rng)
       IN  /\ operations_df' = r.df
           /\ rng' = r.rng
    /\ stdout' = Append(stdout, <<"Creating operations data...">>)
    /\ pc' = "financial"
    /\ UNCHANGED <<n_sales, n_cust, npSeed, rngSeed, sales_df,
                   financial_df, customer_df, files, prev, inp, data>>

\* lines 164-165
CallGenerateFinancial ==
    /\ pc = "financial"
    /\ LET r == GenerateFinancialData(rng)
       IN  /\ financial_df' = r.df
           /\ rng' = r.rng
    /\ stdout' = Append(stdout, <<"Creating financial data...">>)
    /\ pc' = "customers"
    /\ UNCHANGED <<n_sales, n_cust, npSeed, rngSeed, sales_df,
                   operations_df, customer_df, files, prev, inp, data>>

\* variant: no customers are generated when customer_data.csv is there already
CallGenerateCustomersUnlessSaved ==
    /\ pc = "customers"
    /\ LET r == GenerateCustomerData(IF Exists("customer_data.csv") THEN 0 ELSE n_cust, rng)
       IN  /\ customer_df' = r.df
           /\ rng' = r.rng
    /\ stdout' = Append(stdout, <<"Creating customer data...">>)
    /\ pc' = "write_sales"
    /\ UNCHANGED <<n_sales, n_cust, npSeed, rngSeed, sales_df,
                   operations_df, financial_df, files, prev, inp, data>>

\* lines 167-168
CallGenerateCustomers ==
    /\ pc = "customers"
    /\ LET r == GenerateCustomerData(n_cust, rng)
       IN  /\ customer_df' = r.df
           /\ rng' = r.rng
    /\ stdout' = Append(stdout, <<"Creating customer data...">>)
    /\ pc' = "write_sales"
    /\ UNCHANGED <<n_sales, n_cust, npSeed, rngSeed, sales_df,
                   operations_df, financial_df, files, prev, inp, data>>

\* variant: the rows of the frame are dropped before it is written
WriteCsvNoRows(here, next, name, df) ==
    /\ pc = here
    /\ files' = Written(name, Partial(ToCsv(df), 0))
    /\ pc' = next
    /\ UNCHANGED <<n_sales, n_cust, npSeed, rngSeed, rng, sales_df,
                   operations_df, financial_df, customer_df, stdout, prev,
                   inp, data>>

\* one to_csv statement that succeeds
WriteCsv(here, next, name, df) ==
    /\ pc = here
    /\ files' = Written(name, ToCsv(df))
    /\ pc' = next
    /\ UNCHANGED <<n_sales, n_cust, npSeed, rngSeed, rng, sales_df,
                   operations_df, financial_df, customer_df, stdout, prev,
                   inp, data>>

\* variant: a failed write removes the files the run wrote before it
WriteCsvFailsCleansUp(here, name, df) ==
    /\ pc = here
    /\ files' = [f \in {} |-> NoFrame]
    /\ pc' = "error"
    /\ UNCHANGED <<n_sales, n_cust, npSeed, rngSeed, rng, sales_df,
                   operations_df, financial_df, customer_df, stdout, prev,
                   inp, data>>

\* one to_csv statement that raises OSError: the file could not be opened
\* (the directory is as before) or the write broke off part-way; the
\* exception is not caught, so the script ends there
WriteCsvFails(here, name, df) ==
    /\ pc = here
    /\ \/ files' = files
       \/ \E k \in 0..DfLen(df) : files' = Written(name, Partial(ToCsv(df), k))
    /\ pc' = "error"
    /\ UNCHANGED <<n_sales, n_cust, npSeed, rngSeed, rng, sales_df,
                   operations_df, financial_df, customer_df, stdout, prev,
                   inp, data>>

\* line 171
WriteSales == WriteCsv("write_sales", "write_operations", "superstore_sales.csv", sales_df)

\* line 172
WriteOperations ==
    WriteCsv("write_operations", "write_financial", "operations_data.csv", operations_df)

\* line 173
WriteFinancial ==
    WriteCsv("write_financial", "write_customers", "financial_data.csv", financial_df)

\* line 174
WriteCustomers == WriteCsv("write_customers", "summary", "customer_data.csv", customer_df)

WriteFails ==
    \/ WriteCsvFails("write_sales", "superstore_sales.csv", sales_df)
    \/ WriteCsvFails("write_operations", "operations_data.csv", operations_df)
    \/ WriteCsvFails("write_financial", "financial_data.csv", financial_df)
    \/ WriteCsvFails("write_customers", "customer_data.csv", customer_df)

\* lines 176-181
PrintSummary ==
    /\ pc = "summary"
    /\ stdout' = stdout \o
          << <<"Datasets created successfully!">>,
             <<"Sales records: ", DfLen(sales_df)>>,
             <<"Operations records: ", DfLen(operations_df)>>,
             <<"Financial records: ", DfLen(financial_df)>>,
             <<"Customer records: ", DfLen(customer_df)>>,
             <<"Files saved in current directory.">> >>
    /\ pc' = "done"
    /\ UNCHANGED <<n_sales, n_cust, npSeed, rngSeed, rng, sales_df,
                   operations_df, financial_df, customer_df, files, prev,
                   inp, data>>

\* after a run that completed, the script is run once more in the same
\* directory: a new process, whose `random` is seeded afresh; the files of
\* the earlier run are still there
Rerun ==
    /\ pc = "done"
    /\ ~prev.ran
    /\ prev' = [npSeed |-> npSeed, seed |-> rngSeed, n_sales |-> n_sales,
                n_cust |-> n_cust, ran |-> TRUE]
    /\ pc' = "sales"
    /\ npSeed' = 42
    /\ rngSeed' \in Seeds
    /\ rng' = rngSeed'
    /\ n_sales' \in RowCounts
    /\ n_cust' \in RowCounts
    /\ sales_df' = NoFrame
    /\ operations_df' = NoFrame
    /\ financial_df' = NoFrame
    /\ customer_df' = NoFrame
    /\ stdout' = << <<"Generating datasets...">> >>
    /\ UNCHANGED <<files, inp, data>>

Next ==
    \/ CallGenerateSales
    \/ CallGenerateOperations
    \/ CallGenerateFinancial
    \/ CallGenerateCustomers
    \/ WriteSales
    \/ WriteOperations
    \/ WriteFinancial
    \/ WriteCustomers
    \/ WriteFails
    \/ PrintSummary

\* one run of the script
Spec == Init /\ [][Next]_vars

\* two runs of the script in the same directory
SpecRerun == Init /\ [][Next \/ Rerun]_vars

\* the steps of a run in which every to_csv succeeds
NextWritesSucceed ==
    \/ CallGenerateSales
    \/ CallGenerateOperations
    \/ CallGenerateFinancial
    \/ CallGenerateCustomers
    \/ WriteSales
    \/ WriteOperations
    \/ WriteFinancial
    \/ WriteCustomers
    \/ PrintSummary

\* one run in which no write fails; the interpreter executes the next
\* statement whenever there is one
SpecWritesSucceed ==
    Init /\ [][NextWritesSucceed]_vars /\ WF_vars(NextWritesSucceed)

\* after a run that completed, the script is run once more in the same
\* directory with the same row counts, and its `random` returns the same
\* sequence of numbers as in the first run
RerunSameDraws ==
    /\ pc = "done"
    /\ ~prev.ran
    /\ prev' = [npSeed |-> npSeed, seed |-> rngSeed, n_sales |-> n_sales,
                n_cust |-> n_cust, ran |-> TRUE]
    /\ pc' = "sales"
    /\ rng' = rngSeed
    /\ sales_df' = NoFrame
    /\ operations_df' = NoFrame
    /\ financial_df' = NoFrame
    /\ customer_df' = NoFrame
    /\ stdout' = << <<"Generating datasets...">> >>
    /\ UNCHANGED <<npSeed, rngSeed, n_sales, n_cust, files, inp, data>>

\* two runs on the same numbers in the same directory, no write failing
SpecSameDraws == Init /\ [][NextWritesSucceed \/ RerunSameDraws]_vars

----------------------------------------------------------------------------
(* One loop iteration of a generator on its own: `data` starts as the empty *)
(* list, the iteration appends the dict it builds from its index and from   *)
(* the raw numbers its calls to `random` return.  The raw numbers range     *)
(* over sample sets instead of following one generator state, so that every *)
(* combination of the draws that matter is met.                             *)

\* for n outcomes: the least raw number giving each of them
Covering(n) == {(k * RngMod + n - 1) \div n : k \in 0..(n - 1)}

\* the least and the greatest raw number
Ends == {0, RngMod - 1}

\* the script is not running
NoRun ==
    /\ pc = "loop"
    /\ npSeed = 42
    /\ rngSeed = 0
    /\ rng = 0
    /\ n_sales = 0
    /\ n_cust = 0
    /\ sales_df = NoFrame
    /\ operations_df = NoFrame
    /\ financial_df = NoFrame
    /\ customer_df = NoFrame
    /\ stdout = <<>>
    /\ files = [f \in {} |-> NoFrame]
    /\ prev = NoPrev

\* generate_customer_data: every Days_Since_Last_Purchase, the extremes of
\* the other draws
InitCustomerRow ==
    /\ NoRun
    /\ data = <<>>
    /\ \E i \in 0..MaxRows, e \in Ends, p \in Ends, a \in Ends, d \in Covering(366) :
          inp = [i |-> i, raws |-> <<e, p, a, d, e, e, e>>]

CustomerIteration ==
    /\ Len(data) = 0
    /\ data' = Append(data, CustomerRow(inp.i, inp.raws))
    /\ UNCHANGED <<runVars, inp>>

SpecCustomerRow == InitCustomerRow /\ [][CustomerIteration]_vars

\* generate_operations_data: every Units_Produced with every defect rate (in
\* basis points), the extremes of the other draws
InitOperationsRow ==
    /\ NoRun
    /\ data = <<>>
    /\ \E p \in Covering(401), q \in Covering(400), e \in Ends :
          inp = [i |-> 0, raws |-> <<p, q, e, e, e, e>>]

OperationsIteration ==
    /\ Len(data) = 0
    /\ data' = Append(data, OperationsRow(<<2023, 1, 1>>, Shifts[1], inp.raws))
    /\ UNCHANGED <<runVars, inp>>

SpecOperationsRow == InitOperationsRow /\ [][OperationsIteration]_vars

\* raw numbers of the noise, COGS and operating-expense draws: evenly spread
\* outcomes, and the ones that put revenue, COGS and operating expenses on
\* exact half cents in month 0
NoiseRaws == Covering(8) \cup {1}

CogsRaws == Covering(20) \cup {3408}

OpexRaws == Covering(20) \cup {2065}

\* generate_financial_data: every month index of the script's 36 months
InitFinancialRow ==
    /\ NoRun
    /\ data = <<>>
    /\ \E i \in 0..35, z \in NoiseRaws, c \in CogsRaws, o \in OpexRaws, e \in Ends :
          inp = [i |-> i, raws |-> <<z, c, o, e, e>>]

FinancialIteration ==
    /\ Len(data) = 0
    /\ data' = Append(data, FinancialRow(inp.i, AddMonths(<<2022, 1, 1>>, inp.i), inp.raws))
    /\ UNCHANGED <<runVars, inp>>

SpecFinancialRow == InitFinancialRow /\ [][FinancialIteration]_vars

\* generate_sales_data: every order date with every shipping delay and
\* category, the extremes of the other draws
InitSalesRow ==
    /\ NoRun
    /\ data = <<>>
    /\ \E i \in 0..MaxRows, t \in Covering(1096), c \in Covering(3),
           s \in Covering(7), e \in Ends :
          inp = [i |-> i, date |-> t, raws |-> <<c, e, e, e, e, e, e, e, s, e, e, e>>]

SalesIteration ==
    /\ Len(data) = 0
    /\ data' = Append(data,
                  SalesRow(inp.i, AddDays(<<2022, 1, 1>>, RandInt(inp.date, 0, 1095)),
                           inp.raws))
    /\ UNCHANGED <<runVars, inp>>

SpecSalesRow == InitSalesRow /\ [][SalesIteration]_vars

\* raw numbers of the price draw: evenly spread outcomes and the greatest
PriceRaws == Covering(16) \cup {RngMod - 1}

\* generate_sales_data: every category with every sub-category, quantity and
\* discount, a spread of prices, the least and the greatest product number
InitSalesPricing ==
    /\ NoRun
    /\ data = <<>>
    /\ \E c \in Covering(3), s \in Covering(4) \cup Covering(5), p \in PriceRaws,
           q \in Covering(10), d \in Covering(5), m \in Ends, e \in Ends :
          inp = [i |-> 0, date |-> 0, raws |-> <<c, s, e, e, p, q, d, e, e, m, e, e>>]

SpecSalesPricing == InitSalesPricing /\ [][SalesIteration]_vars

----------------------------------------------------------------------------
(* Properties *)

\* the customer dicts built so far: by one iteration, and by the script
CustomerRows == data \o customer_df.rows

\* C1: in every customer row, Churned is 1 exactly when
\* Days_Since_Last_Purchase is greater than 180, and 0 otherwise
C1_ChurnedIffOver180 ==
    \A k \in 1..Len(CustomerRows) :
        LET r == CustomerRows[k]
        IN  /\ r.Churned \in {0, 1}
            /\ r.Churned = 1 <=> r.Days_Since_Last_Purchase > 180

\* a customer one day past the threshold, flagged as churned
C1_Witness ==
    /\ Len(data) = 1
    /\ data[1].Days_Since_Last_Purchase = 181
    /\ data[1].Churned = 1

\* C2: a second run under the same seed (numpy's, the only one the script
\* sets) and with the same row count rewrites superstore_sales.csv with the
\* content the first run gave it
C2_SameSeedSameSalesFile ==
    [][(/\ pc = "write_sales"
        /\ pc' = "write_operations"
        /\ prev.ran
        /\ prev.npSeed = npSeed
        /\ prev.n_sales = n_sales)
       => files'["superstore_sales.csv"] = files["superstore_sales.csv"]]_vars

\* C3: in every financial row, Gross_Profit is Revenue - COGS and Net_Profit
\* is Revenue - COGS - Operating_Expenses, computed from the stored (rounded)
\* values, exactly
C3_ProfitsFromStoredValues ==
    \A k \in 1..Len(data) :
        /\ data[k].Gross_Profit = data[k].Revenue - data[k].COGS
        /\ data[k].Net_Profit =
              data[k].Revenue - data[k].COGS - data[k].Operating_Expenses

\* C4: in every financial row, Net_Profit is within one cent of
\* Revenue - COGS - Operating_Expenses computed from the stored values
C4_NetProfitWithinOneCent ==
    \A k \in 1..Len(data) :
        Abs(data[k].Net_Profit
              - (data[k].Revenue - data[k].COGS - data[k].Operating_Expenses)) <= 1

\* C5: in every operations row, 0 <= Defects <= Units_Produced, and
\* Defect_Rate is the multiple of 0.0001 nearest to Defects / Units_Produced
C5_DefectsAndDefectRate ==
    \A k \in 1..Len(data) :
        LET r == data[k]
        IN  /\ 0 <= r.Defects
            /\ r.Defects <= r.Units_Produced
            /\ 2 * Abs(r.Defect_Rate * r.Units_Produced - r.Defects * 10000)
                  <= r.Units_Produced

\* the largest production with the highest defect rate drawn
C5_Witness ==
    /\ Len(data) = 1
    /\ data[1].Units_Produced = 1200
    /\ data[1].Defects = 59
    /\ data[1].Defect_Rate = 492

\* <<y, m, d>> a is a later day than b
Later(a, b) ==
    \/ a[1] > b[1]
    \/ a[1] = b[1] /\ a[2] > b[2]
    \/ a[1] = b[1] /\ a[2] = b[2] /\ a[3] > b[3]

\* C6: in every sales row, Ship_Date is 1 to 7 whole days after Order_Date
C6_ShipsWithinAWeek ==
    \A k \in 1..Len(data) :
        /\ DaysBetween(data[k].Ship_Date, data[k].Order_Date) \in 1..7
        /\ Later(data[k].Ship_Date, data[k].Order_Date)

\* an order of 28 February 2024 shipped seven days later, across the leap day
C6_Witness ==
    /\ Len(data) = 1
    /\ data[1].Order_Date = <<2024, 2, 28>>
    /\ data[1].Ship_Date = <<2024, 3, 6>>

\* C7: generate_sales_data(0) gives a frame with no rows and the 14 sales
\* columns, and superstore_sales.csv then has that header and no data line
C7_EmptySalesKeepsHeader ==
    /\ (n_sales = 0 /\ sales_df # NoFrame)
          => (DfLen(sales_df) = 0 /\ sales_df.columns = SalesColumns)
    /\ (n_sales = 0 /\ Exists("superstore_sales.csv"))
          => /\ files["superstore_sales.csv"].header = SalesColumns
             /\ Len(files["superstore_sales.csv"].lines) = 0

\* C8: with a negative row count no sales (customer) frame is returned and
\* no sales (customer) file is written
C8_NegativeCountRejected ==
    /\ n_sales < 0 => (sales_df = NoFrame /\ ~Exists("superstore_sales.csv"))
    /\ n_cust < 0 => (customer_df = NoFrame /\ ~Exists("customer_data.csv"))

\* C9: for n >= 0 the frame generate_sales_data(n) returns has n rows, and so
\* has the frame generate_customer_data(n) returns
C9_RowCounts ==
    /\ (sales_df # NoFrame /\ n_sales >= 0) => DfLen(sales_df) = n_sales
    /\ (customer_df # NoFrame /\ n_cust >= 0) => DfLen(customer_df) = n_cust

\* a completed run that asked for the most sales rows and for one customer
C9_Witness ==
    /\ pc = "done"
    /\ n_sales = MaxRows
    /\ DfLen(sales_df) = MaxRows
    /\ n_cust = 1
    /\ DfLen(customer_df) = 1

\* C10: a second run whose `random` starts from the same seed rewrites
\* operations_data.csv with the content the first run gave it, whatever row
\* counts generate_sales_data was called with in the two runs
C10_OperationsIndependentOfSales ==
    [][(/\ pc = "write_operations"
        /\ pc' = "write_financial"
        /\ prev.ran
        /\ prev.seed = rngSeed)
       => files'["operations_data.csv"] = files["operations_data.csv"]]_vars

\* the days of the operations range, counted from 2023-01-01
OperationsDays == {AddDays(<<2023, 1, 1>>, d) : d \in 0..(OpsDays - 1)}

\* C11: the operations frame has exactly one row for every (day, shift) of
\* the range starting 2023-01-01 and the three shifts, no pair twice, so it
\* has days * 3 rows, and the argument n makes no difference to it
C11_OneRowPerDayAndShift ==
    operations_df # NoFrame =>
        LET rows == operations_df.rows
        IN  /\ Len(rows) = Cardinality(OperationsDays) * 3
            /\ \A d \in OperationsDays, s \in {"Morning", "Evening", "Night"} :
                   Cardinality({k \in 1..Len(rows) :
                                   rows[k].Date = d /\ rows[k].Shift = s}) = 1
            /\ \A k \in 1..Len(rows) : rows[k].Date \in OperationsDays
            /\ \A n \in RowCounts \cup {2000, 5000} :
                   GenerateOperationsData(n, rngSeed).df
                      = GenerateOperationsData(2000, rngSeed).df

\* a completed run whose operations frame ends with the night shift of the
\* last day
C11_Witness ==
    /\ pc = "done"
    /\ DfLen(operations_df) = OpsDays * 3
    /\ operations_df.rows[OpsDays * 3].Date = OperationsEnd
    /\ operations_df.rows[OpsDays * 3].Shift = "Night"

\* the first days of the months of the financial range, counted from 2022-01
FinancialMonths ==
    {<<2022 + (m \div 12), 1 + (m % 12), 1>> : m \in 0..(FinMonths - 1)}

\* C12: the financial frame has exactly one row for every calendar month of
\* the range starting 2022-01, and every row's Month is later than the Month
\* of the row before it
C12_OneRowPerMonthAscending ==
    financial_df # NoFrame =>
        LET rows == financial_df.rows
        IN  /\ Len(rows) = Cardinality(FinancialMonths)
            /\ \A m \in FinancialMonths :
                   Cardinality({k \in 1..Len(rows) : rows[k].Month = m}) = 1
            /\ \A k \in 1..Len(rows) : rows[k].Month \in FinancialMonths
            /\ \A k \in 1..(Len(rows) - 1) : Later(rows[k + 1].Month, rows[k].Month)

\* a completed run whose financial frame goes from December 2022 on to
\* January 2023
C12_Witness ==
    /\ pc = "done"
    /\ DfLen(financial_df) = FinMonths
    /\ financial_df.rows[1].Month = <<2022, 1, 1>>
    /\ financial_df.rows[12].Month = <<2022, 12, 1>>
    /\ financial_df.rows[13].Month = <<2023, 1, 1>>

\* the four files in the order the script writes them, and their frames
CsvNames ==
    <<"superstore_sales.csv", "operations_data.csv", "financial_data.csv",
      "customer_data.csv">>

CsvFrames == <<sales_df, operations_df, financial_df, customer_df>>

\* the success summary has been printed
SummaryPrinted ==
    \E k \in 1..Len(stdout) : stdout[k] = <<"Datasets created successfully!">>

\* the run ended in the j-th write: the files written before it are whole,
\* the j-th file is missing or broken off, the later files are missing
FailedAt(j) ==
    /\ \A k \in 1..(j - 1) :
          Exists(CsvNames[k]) /\ files[CsvNames[k]] = ToCsv(CsvFrames[k])
    /\ Exists(CsvNames[j]) =>
          \E m \in 0..DfLen(CsvFrames[j]) :
             files[CsvNames[j]] = Partial(ToCsv(CsvFrames[j]), m)
    /\ \A k \in (j + 1)..4 : ~Exists(CsvNames[k])

\* C13: when one of the four writes fails the run ends there, for good: the
\* files written before it are as they were written, the later files are not
\* written, the summary is not printed, and nothing is done afterwards
C13_WriteErrorEndsRun ==
    /\ [](pc = "error" => (~SummaryPrinted /\ \E j \in 1..4 : FailedAt(j)))
    /\ [][/\ pc # "error"
           /\ pc' = "error" =>
                 /\ stdout' = stdout
                 /\ \E j \in 1..4 :
                       /\ \A k \in 1..(j - 1) :
                             /\ Exists(CsvNames[k])
                             /\ CsvNames[k] \in DOMAIN files'
                             /\ files'[CsvNames[k]] = files[CsvNames[k]]
                       /\ \A k \in j..4 : ~Exists(CsvNames[k])]_vars

\* the write of the financial file broke off after two files were written
C13_Witness ==
    /\ pc = "error"
    /\ n_sales = MaxRows
    /\ Exists("superstore_sales.csv")
    /\ Len(files["superstore_sales.csv"].lines) = MaxRows
    /\ Exists("operations_data.csv")
    /\ Exists("financial_data.csv")
    /\ Len(files["financial_data.csv"].lines) = 1
    /\ ~Exists("customer_data.csv")
    /\ ~SummaryPrinted

\* C14: in one run each of the four frames is bound once, while no file of
\* the run exists yet (so no frame is made from a file); each file is written
\* once, after its frame was bound, from the frame as it was bound; a
\* completed run has bound the four frames and written the four files
C14_CreatedOnceWrittenOnce ==
    /\ [](pc = "done" =>
            \A j \in 1..4 :
               /\ CsvFrames[j] # NoFrame
               /\ Exists(CsvNames[j])
               /\ files[CsvNames[j]] = ToCsv(CsvFrames[j]))
    /\ [][\A j \in 1..4 :
             LET name    == CsvNames[j]
                 written == IF name \in DOMAIN files'
                            THEN ~Exists(name) \/ files'[name] # files[name]
                            ELSE Exists(name)
             IN  /\ CsvFrames'[j] # CsvFrames[j] =>
                       /\ CsvFrames[j] = NoFrame
                       /\ DOMAIN files = {}
                       /\ files' = files
                 /\ written =>
                       /\ ~Exists(name)
                       /\ CsvFrames[j] # NoFrame
                       /\ CsvFrames' = CsvFrames
                       /\ pc' # "error" => files'[name] = ToCsv(CsvFrames[j])]_vars

\* a completed run: the four files hold the frames of the run
C14_Witness ==
    /\ pc = "done"
    /\ n_sales = MaxRows
    /\ n_cust = MaxRows
    /\ \A j \in 1..4 : Exists(CsvNames[j]) /\ files[CsvNames[j]] = ToCsv(CsvFrames[j])
    /\ Len(files["customer_data.csv"].lines) = MaxRows
    /\ Len(files["financial_data.csv"].lines) = FinMonths

\* the bounds of the unit price of a category, in mills
PriceRange(cat) ==
    IF cat = "Technology" THEN <<50000, 2000000>>
    ELSE IF cat = "Furniture" THEN <<100000, 1500000>>
    ELSE <<5000, 300000>>

\* C15: in every sales row, Sales is price * Quantity * (1 - Discount)
\* rounded to cents, price being the number drawn for the row between the
\* bounds of the row's Category
C15_SalesFromPriceQuantityDiscount ==
    \A k \in 1..Len(data) :
        LET r     == data[k]
            range == PriceRange(r.Category)
            price == Uniform(inp.raws[5], range[1], range[2])
        IN  /\ range[1] <= price
            /\ price <= range[2]
            /\ r.Sales = Round2(FMul(price * r.Quantity, 10000 - r.Discount))

\* ten units of technology at the highest price drawn, a quarter off
C15_Witness ==
    /\ Len(data) = 1
    /\ data[1].Category = "Technology"
    /\ data[1].Quantity = 10
    /\ data[1].Discount = 2500
    /\ data[1].Sales = 1499955

\* C16: in every sales row, Discount is one of 0, 0.10, 0.15, 0.20, 0.25
\* (in basis points)
C16_DiscountOneOfFive ==
    \A k \in 1..Len(data) : data[k].Discount \in {0, 1000, 1500, 2000, 2500}

\* a row with the greatest discount
C16_Witness ==
    /\ Len(data) = 1
    /\ data[1].Discount = 2500
    /\ data[1].Category = "Furniture"

\* C17: in every sales row, Sub_Category is one of the sub-categories of the
\* row's Category, and Product_Name is that Sub_Category followed by a
\* number of three digits
C17_SubCategoryOfCategory ==
    \A k \in 1..Len(data) :
        LET r == data[k]
        IN  /\ r.Category = "Technology" =>
                  r.Sub_Category \in {"Phones", "Computers", "Accessories", "Copiers"}
            /\ r.Category = "Furniture" =>
                  r.Sub_Category \in {"Chairs", "Tables", "Bookcases", "Furnishings"}
            /\ r.Category = "Office Supplies" =>
                  r.Sub_Category \in {"Paper", "Binders", "Art", "Storage", "Labels"}
            /\ r.Category \in {"Technology", "Furniture", "Office Supplies"}
            /\ Len(r.Product_Name) = 2
            /\ r.Product_Name[1] = r.Sub_Category
            /\ r.Product_Name[2] \in 100..999

\* a furniture row with the last sub-category of its list and the greatest
\* product number
C17_Witness ==
    /\ Len(data) = 1
    /\ data[1].Category = "Furniture"
    /\ data[1].Sub_Category = "Furnishings"
    /\ data[1].Product_Name = <<"Furnishings", 999>>

\* C18: the i-th row of the sales frame (i from 0) has Order_ID 'ORD-'
\* followed by 1000 + i, and no two rows of the frame have the same Order_ID
C18_SequentialOrderIds ==
    sales_df # NoFrame =>
        LET rows == sales_df.rows
        IN  /\ \A k \in 1..Len(rows) : rows[k].Order_ID = <<"ORD-", 1000 + (k - 1)>>
            /\ \A j \in 1..Len(rows), k \in 1..Len(rows) :
                   j # k => rows[j].Order_ID # rows[k].Order_ID

\* a sales file whose first and last lines carry the first and the last
\* identifier
C18_Witness ==
    /\ pc = "write_operations"
    /\ DfLen(sales_df) = MaxRows
    /\ sales_df.rows[1].Order_ID = <<"ORD-", 1000>>
    /\ sales_df.rows[MaxRows].Order_ID = <<"ORD-", 999 + MaxRows>>
    /\ Exists("superstore_sales.csv")

\* C19: the trend is the base revenue at month index 0, grows with the month
\* index, and compounds: trend(i + 1) = trend(i) * 1.015
C19_TrendCompounds ==
    Len(data) = 1 =>
        /\ Trend(0) = 500000000
        /\ Trend(inp.i + 1) > Trend(inp.i)
        /\ Trend(inp.i + 1) = FMul(Trend(inp.i), 10150)

\* C19, amended: the trend is the base revenue at month index 0 and grows
\* by 1.5% of the base revenue (7500, in mills here) with every month index,
\* trend(i) = base * (1 + 0.015 * i); the revenue stored for month index i is
\* that trend, times the seasonal factor, plus the noise drawn for the row
C19_TrendLinear ==
    Len(data) = 1 =>
        /\ Trend(0) = 500000000
        /\ Trend(inp.i + 1) > Trend(inp.i)
        /\ Trend(inp.i + 1) - Trend(inp.i) = 7500000
        /\ Trend(inp.i) = 500000000 + 7500000 * inp.i
        /\ data[1].Revenue =
              Round2(FMul(500000000 + 7500000 * inp.i, 10000 + Sin12(inp.i) \div 10)
                       + Uniform(inp.raws[1], -20000000, 30000000))

\* the row of December 2024, month index 35: the trend is 762500, where
\* compounding would give more than 840000
C19_Witness ==
    /\ Len(data) = 1
    /\ inp.i = 35
    /\ data[1].Month = <<2024, 12, 1>>
    /\ Trend(inp.i) = 762500000
    /\ FMul(Trend(inp.i - 1), 10150) # Trend(inp.i)

\* C20: in every customer row, Lifetime_Value is Total_Purchases times
\* Avg_Order_Value, the stored values (money in cents)
C20_LifetimeValueFromStored ==
    \A k \in 1..Len(data) :
        data[k].Lifetime_Value = data[k].Total_Purchases * data[k].Avg_Order_Value

\* C21: in every financial row, COGS is between 55% and 65% of Revenue,
\* Operating_Expenses between 20% and 30% of Revenue, Revenue is positive,
\* and 0 < Net_Profit <= Gross_Profit < Revenue (money in cents)
C21_CostFractionsAndProfitOrder ==
    \A k \in 1..Len(data) :
        LET r == data[k]
        IN  /\ r.Revenue > 0
            /\ 11 * r.Revenue <= 20 * r.COGS
            /\ 20 * r.COGS <= 13 * r.Revenue
            /\ r.Revenue <= 5 * r.Operating_Expenses
            /\ 10 * r.Operating_Expenses <= 3 * r.Revenue
            /\ 0 < r.Net_Profit
            /\ r.Net_Profit <= r.Gross_Profit
            /\ r.Gross_Profit < r.Revenue

\* C21, amended: in every financial row, COGS is between 55% and 65% of
\* Revenue and Operating_Expenses between 20% and 30% of Revenue, each to
\* within one cent (the amounts are rounded to cents one by one), Revenue is
\* positive, and 0 < Net_Profit <= Gross_Profit < Revenue
C21_CostFractionsWithinACent ==
    \A k \in 1..Len(data) :
        LET r == data[k]
        IN  /\ r.Revenue > 0
            /\ 11 * r.Revenue < 20 * (r.COGS + 1)
            /\ 20 * (r.COGS - 1) < 13 * r.Revenue
            /\ r.Revenue < 5 * (r.Operating_Expenses + 1)
            /\ 10 * (r.Operating_Expenses - 1) < 3 * r.Revenue
            /\ 0 < r.Net_Profit
            /\ r.Net_Profit <= r.Gross_Profit
            /\ r.Gross_Profit < r.Revenue

\* February 2022 with the least operating-expense fraction drawn: the stored
\* 102575.30 is less than a fifth of the stored revenue 512876.52
C21_Witness ==
    /\ Len(data) = 1
    /\ data[1].Month = <<2022, 2, 1>>
    /\ data[1].Revenue = 51287652
    /\ data[1].Operating_Expenses = 10257530
    /\ 5 * data[1].Operating_Expenses < data[1].Revenue

\* the statements of the script in program order, and the place of pc in them
Statements ==
    <<"sales", "operations", "financial", "customers", "write_sales",
      "write_operations", "write_financial", "write_customers", "summary", "done">>

Position == CHOOSE k \in 1..Len(Statements) : Statements[k] = pc

\* C22: when no write fails, a run with row counts >= 0 comes to its end,
\* with the summary printed and the four files written; every step moves one
\* statement on; on the way the frames are bound in the order sales,
\* operations, financial, customers, then the files are written in that same
\* order, then the summary is printed
C22_RunTerminatesInOrder ==
    /\ (n_sales >= 0 /\ n_cust >= 0) =>
          <>(/\ pc = "done"
             /\ SummaryPrinted
             /\ \A j \in 1..4 : Exists(CsvNames[j]))
    /\ [][/\ Position' = Position + 1
          /\ \A j \in 1..4 :
                (CsvFrames'[j] # CsvFrames[j]) =>
                   /\ \A k \in 1..(j - 1) : CsvFrames[k] # NoFrame
                   /\ \A k \in j..4 : CsvFrames[k] = NoFrame
                   /\ DOMAIN files = {}
          /\ \A j \in 1..4 :
                (CsvNames[j] \in DOMAIN files' /\ ~Exists(CsvNames[j])) =>
                   /\ \A k \in 1..4 : CsvFrames[k] # NoFrame
                   /\ \A k \in 1..(j - 1) : Exists(CsvNames[k])
                   /\ \A k \in (j + 1)..4 : CsvNames[k] \notin DOMAIN files'
                   /\ ~SummaryPrinted
          /\ (SummaryPrinted' /\ ~SummaryPrinted) =>
                   \A k \in 1..4 : Exists(CsvNames[k])]_vars

\* the end of a run for no sales rows and the most customers: the messages
\* of the four generators in order, then the summary
C22_Witness ==
    /\ pc = "done"
    /\ n_sales = 0
    /\ n_cust = MaxRows
    /\ Len(stdout) = 11
    /\ stdout[2] = <<"Creating sales data...">>
    /\ stdout[3] = <<"Creating operations data...">>
    /\ stdout[4] = <<"Creating financial data...">>
    /\ stdout[5] = <<"Creating customer data...">>
    /\ stdout[6] = <<"Datasets created successfully!">>
    /\ \A j \in 1..4 : Exists(CsvNames[j])

\* the number returned by the k-th call to `random` of the run
Draw(k) == RngAt(rngSeed, k)

\* calls made to `random` by the time each generator has returned
SalesDraws == 13 * Max(n_sales, 0)

OperationsDraws == SalesDraws + 6 * DfLen(operations_df)

FinancialDraws == OperationsDraws + 5 * DfLen(financial_df)

\* the numbers are used in a fixed order: the order dates of all sales rows
\* first, then twelve per sales row, ...
SalesDrawOrder ==
    \A k \in 1..DfLen(sales_df) :
       LET r == sales_df.rows[k]
           first == Max(n_sales, 0) + 12 * (k - 1)
       IN  /\ r.Order_Date = AddDays(<<2022, 1, 1>>, RandInt(Draw(k), 0, 1095))
           /\ r.Category = Choice(Draw(first + 1), categories)
           /\ r.Quantity = RandInt(Draw(first + 6), 1, 10)
           /\ r.State = Choice(Draw(first + 12), States)

\* ... then six per operations row, ...
OperationsDrawOrder ==
    \A k \in 1..DfLen(operations_df) :
       LET r == operations_df.rows[k]
           first == SalesDraws + 6 * (k - 1)
       IN  /\ r.Units_Produced = RandInt(Draw(first + 1), 800, 1200)
           /\ r.Labor_Hours = RandInt(Draw(first + 6), 150, 200)

\* ... five per financial row, ...
FinancialDrawOrder ==
    \A k \in 1..DfLen(financial_df) :
       financial_df.rows[k].Revenue =
          Round2(Seasonal(k - 1)
                   + Uniform(Draw(OperationsDraws + 5 * (k - 1) + 1),
                             -20000000, 30000000))

\* ... seven per customer row, and none besides
CustomerDrawOrder ==
    /\ \A k \in 1..DfLen(customer_df) :
          LET r == customer_df.rows[k]
              first == FinancialDraws + 7 * (k - 1)
          IN  /\ r.Total_Purchases = RandInt(Draw(first + 2), 1, 50)
              /\ r.Support_Tickets = RandInt(Draw(first + 6), 0, 10)
    /\ rng = Draw(FinancialDraws + 7 * DfLen(customer_df))

\* C23: the datasets are a function of the row counts and of the numbers the
\* random source returns: each generator, when it returns, has used the
\* numbers in the fixed order, and a second run with the same row counts and
\* the same sequence of numbers rewrites each of the four files with the
\* content it had
C23_DatasetsFunctionOfDraws ==
    [][/\ pc = "sales" => SalesDrawOrder'
       /\ pc = "operations" => OperationsDrawOrder'
       /\ pc = "financial" => FinancialDrawOrder'
       /\ pc = "customers" => CustomerDrawOrder'
       /\ \A j \in 1..4 :
             (/\ pc = Statements[4 + j]
              /\ pc' = Statements[5 + j]
              /\ prev.ran
              /\ prev.seed = rngSeed
              /\ prev.n_sales = n_sales
              /\ prev.n_cust = n_cust)
             => files'[CsvNames[j]] = files[CsvNames[j]]]_vars

\* the second of two runs with the same numbers and row counts has rewritten
\* the four files
C23_Witness ==
    /\ pc = "done"
    /\ prev.ran
    /\ prev.seed = rngSeed
    /\ prev.n_sales = n_sales
    /\ prev.n_cust = n_cust
    /\ n_sales = MaxRows
    /\ n_cust = MaxRows
    /\ \A j \in 1..4 : Exists(CsvNames[j]) /\ files[CsvNames[j]] = ToCsv(CsvFrames[j])

----------------------------------------------------------------------------
(* part_d_interactive_dashboard.py: the Streamlit script.  Every            *)
(* interaction runs the script from the top: the data are loaded, the       *)
(* sidebar widgets return what the user has chosen, the selected view is    *)
(* drawn.  `data` holds the script's variables, `inp` what the widgets      *)
(* returned, `pc` the widget or view that comes next.  Order dates are day  *)
(* numbers, money is in cents.                                              *)

\* largest number of rows in superstore_sales.csv when the dashboard loads it
MaxLoaded == 2

\* rows superstore_sales.csv is made of: every sale is positive, a profit
\* may be negative
SampleRows ==
    << [Order_Date |-> 1, Region |-> "East", Category |-> "Furniture",
        Segment |-> "Consumer", Sales |-> 1200, Profit |-> 300],
       [Order_Date |-> 2, Region |-> "West", Category |-> "Technology",
        Segment |-> "Corporate", Sales |-> 2000, Profit |-> -250],
       [Order_Date |-> 3, Region |-> "East", Category |-> "Technology",
        Segment |-> "Consumer", Sales |-> 800, Profit |-> 80],
       [Order_Date |-> 2, Region |-> "East", Category |-> "Furniture",
        Segment |-> "Home Office", Sales |-> 1500, Profit |-> 450],
       [Order_Date |-> 1, Region |-> "West", Category |-> "Furniture",
        Segment |-> "Corporate", Sales |-> 1000, Profit |-> 0] >>

\* load_data(): the rows of the file, each order with its own Order_ID
load_data(picks) ==
    [k \in 1..Len(picks) |-> [Order_ID |-> k] @@ SampleRows[picks[k]]]

\* the files the dashboard may find
LoadedFiles ==
    {load_data(picks) :
        picks \in UNION {[1..n -> 1..Len(SampleRows)] : n \in 1..MaxLoaded}}

\* df[col].unique(), as a set
Unique(df, col) == {df[k][col] : k \in 1..Len(df)}

\* sorted(list) of strings: alphabetical order
Alphabetical ==
    <<"Central", "Consumer", "Corporate", "East", "Furniture", "Home Office",
      "Office Supplies", "South", "Technology", "West">>

sorted(S) == SelectSeq(Alphabetical, LAMBDA x : x \in S)

\* df[col].min(), df[col].max()
ColMin(df, col) == CHOOSE x \in Unique(df, col) : \A y \in Unique(df, col) : x <= y
ColMax(df, col) == CHOOSE x \in Unique(df, col) : \A y \in Unique(df, col) : x >= y

\* df[col].sum(): 0 for a frame without rows
RECURSIVE ColSum(_, _)
ColSum(df, col) ==
    IF Len(df) = 0 THEN 0 ELSE df[1][col] + ColSum(Tail(df), col)

\* st.sidebar.date_input with a pair as its value: one date while the user
\* is still choosing, otherwise a start and an end not before it, all
\* within the bounds
date_input(min_value, max_value) ==
    {<<d>> : d \in min_value..max_value}
        \cup UNION {{<<d, e>> : e \in d..max_value} : d \in min_value..max_value}

\* a numpy float that is the result of a division: a number, nan or inf
Finite(x) == [kind |-> "finite", x |-> x]
NaN == [kind |-> "nan", x |-> 0]
Inf == [kind |-> "inf", x |-> 0]

\* a / b on numpy floats: nan or inf for a zero divisor, otherwise the
\* quotient, kept to the unit `scale` stands for (scale a power of ten)
RECURSIVE Digits(_, _, _, _)
Digits(q, r, b, scale) ==
    IF scale = 1 THEN q
    ELSE Digits(10 * q + (10 * r) \div b, (10 * r) % b, b, scale \div 10)

TrueDiv(a, b, scale) ==
    IF b = 0 THEN (IF a = 0 THEN NaN ELSE Inf)
    ELSE IF b > 0 THEN Finite(Digits(a \div b, a % b, b, scale))
    ELSE Finite(Digits((-a) \div (-b), (-a) % (-b), -b, scale))

\* x - y, nan carried along
Minus(x, y) ==
    IF x.kind = "finite" /\ y.kind = "finite" THEN Finite(x.x - y.x)
    ELSE IF x.kind = "inf" /\ y.kind = "finite" THEN Inf
    ELSE IF x.kind = "finite" /\ y.kind = "inf" THEN Inf
    ELSE NaN

\* the script's variables before load_data() has returned
NotLoaded ==
    [loaded |-> <<>>, sales |-> <<>>, regions |-> <<>>, categories |-> <<>>,
     options |-> {}, shown |-> [view_mode |-> "none"]]

NoInput ==
    [date_range |-> <<>>, selected_region |-> "All",
     selected_category |-> "All", segments |-> {}]

\* line 36: sales, operations, financial, customer = load_data()
InitDashboard ==
    /\ n_sales = 0
    /\ n_cust = 0
    /\ npSeed = 42
    /\ rngSeed = 0
    /\ rng = 0
    /\ sales_df = NoFrame
    /\ operations_df = NoFrame
    /\ financial_df = NoFrame
    /\ customer_df = NoFrame
    /\ stdout = <<>>
    /\ files = [f \in {} |-> NoFrame]
    /\ prev = NoPrev
    /\ pc = "date_range"
    /\ inp = NoInput
    /\ \E loaded \in LoadedFiles :
          data = [NotLoaded EXCEPT !.loaded = loaded, !.sales = loaded]

generatorVars ==
    <<n_sales, n_cust, npSeed, rngSeed, rng, sales_df, operations_df,
      financial_df, customer_df, files, stdout, prev>>

\* variant: the end of the range is exclusive
InRangeExclusive(row, date_range) ==
    row.Order_Date >= date_range[1] /\ row.Order_Date < date_range[2]

\* (sales['Order_Date'] >= start_date) & (sales['Order_Date'] <= end_date)
InRange(row, date_range) ==
    row.Order_Date >= date_range[1] /\ row.Order_Date <= date_range[2]

\* lines 66-80: the date range filter
DateRangeFilter ==
    /\ pc = "date_range"
    /\ \E date_range \in date_input(ColMin(data.loaded, "Order_Date"),
                                    ColMax(data.loaded, "Order_Date")) :
          /\ inp' = [inp EXCEPT !.date_range = date_range]
          /\ data' = [data EXCEPT
                !.sales = IF Len(date_range) = 2
                          THEN SelectSeq(data.sales,
                                         LAMBDA row : InRange(row, date_range))
                          ELSE data.sales]
    /\ pc' = "selected_region"
    /\ UNCHANGED generatorVars

\* lines 82-87: the region filter
RegionFilter ==
    /\ pc = "selected_region"
    /\ \E selected_region \in {"All"} \cup Unique(data.sales, "Region") :
          /\ inp' = [inp EXCEPT !.selected_region = selected_region]
          /\ data' = [data EXCEPT
                !.regions = <<"All">> \o sorted(Unique(data.sales, "Region")),
                !.sales = IF selected_region # "All"
                          THEN SelectSeq(data.sales,
                                   LAMBDA row : row.Region = selected_region)
                          ELSE data.sales]
    /\ pc' = "selected_category"
    /\ UNCHANGED generatorVars

\* lines 89-94: the category filter
CategoryFilter ==
    /\ pc = "selected_category"
    /\ \E selected_category \in {"All"} \cup Unique(data.sales, "Category") :
          /\ inp' = [inp EXCEPT !.selected_category = selected_category]
          /\ data' = [data EXCEPT
                !.categories =
                    <<"All">> \o sorted(Unique(data.sales, "Category")),
                !.sales = IF selected_category # "All"
                          THEN SelectSeq(data.sales,
                               LAMBDA row : row.Category = selected_category)
                          ELSE data.sales]
    /\ pc' = "segments"
    /\ UNCHANGED generatorVars

\* lines 96-103: the segment filter
SegmentFilter ==
    /\ pc = "segments"
    /\ \E chosen \in SUBSET Unique(data.sales, "Segment") :
          /\ inp' = [inp EXCEPT !.segments = chosen]
          /\ data' = [data EXCEPT
                !.options = Unique(data.sales, "Segment"),
                !.sales = SelectSeq(data.sales,
                                    LAMBDA row : row.Segment \in chosen)]
    /\ pc' = "view_mode"
    /\ UNCHANGED generatorVars

\* lines 138-156: the KPI row of the Executive Summary; the average order
\* in cents, the margin in thousandths of a percent
Kpis(sales) ==
    [total_sales   |-> ColSum(sales, "Sales"),
     total_profit  |-> ColSum(sales, "Profit"),
     total_orders  |-> Cardinality(Unique(sales, "Order_ID")),
     avg_order     |-> IF Cardinality(Unique(sales, "Order_ID")) > 0
                       THEN TrueDiv(ColSum(sales, "Sales"),
                                    Cardinality(Unique(sales, "Order_ID")), 1)
                       ELSE Finite(0),
     profit_margin |-> IF ColSum(sales, "Sales") > 0
                       THEN TrueDiv(100 * ColSum(sales, "Profit"),
                                    ColSum(sales, "Sales"), 1000)
                       ELSE Finite(0)]

\* sales.groupby('Region').agg(...) and line 251: one row per region that
\* has rows, with its Profit_Margin
RegionData(sales) ==
    [r \in Unique(sales, "Region") |->
        [Sales  |-> ColSum(SelectSeq(sales, LAMBDA row : row.Region = r), "Sales"),
         Profit |-> ColSum(SelectSeq(sales, LAMBDA row : row.Region = r), "Profit"),
         Profit_Margin |->
            TrueDiv(100 * ColSum(SelectSeq(sales, LAMBDA row : row.Region = r),
                                 "Profit"),
                    ColSum(SelectSeq(sales, LAMBDA row : row.Region = r),
                           "Sales"), 1000)]]

\* st.slider(min_value, max_value, step): the positions of the slider
slider(min_value, max_value, step) ==
    {min_value + step * k : k \in 0..((max_value - min_value) \div step)}

price_slider == slider(-50, 50, 5)
volume_slider == slider(-50, 50, 5)
cost_slider == slider(-30, 30, 5)

\* variant: the volume change is not applied to the cost
WhatIfCostWithoutVolume(base_sales, base_profit, price_change, volume_change, cost_change) ==
    [base_sales  |-> 10000 * base_sales,
     base_profit |-> 10000 * base_profit,
     base_cost   |-> 10000 * (base_sales - base_profit),
     new_sales   |-> base_sales * (100 + price_change) * (100 + volume_change),
     new_cost    |-> (base_sales - base_profit) * (100 + cost_change) * 100,
     new_profit  |-> base_sales * (100 + price_change) * (100 + volume_change)
                     - (base_sales - base_profit) * (100 + cost_change) * 100]

\* lines 566-577: the scenario; base_sales and base_profit come in cents,
\* the multipliers are held in hundredths (1 + change / 100 is
\* 100 + change), so every amount of the result is in 1/10000 of a cent
WhatIf(base_sales, base_profit, price_change, volume_change, cost_change) ==
    [base_sales  |-> 10000 * base_sales,
     base_profit |-> 10000 * base_profit,
     base_cost   |-> 10000 * (base_sales - base_profit),
     new_sales   |-> base_sales * (100 + price_change) * (100 + volume_change),
     new_cost    |-> (base_sales - base_profit) * (100 + cost_change)
                     * (100 + volume_change),
     new_profit  |-> base_sales * (100 + price_change) * (100 + volume_change)
                     - (base_sales - base_profit) * (100 + cost_change)
                       * (100 + volume_change)]

\* lines 601-604: the margins of the third metric, in thousandths of a
\* percent
Margins(w) ==
    [margin      |-> IF w.new_sales > 0
                     THEN TrueDiv(w.new_profit, w.new_sales, 100000) ELSE Finite(0),
     base_margin |-> TrueDiv(w.base_profit, w.base_sales, 100000),
     margin_delta |->
         Minus(IF w.new_sales > 0
               THEN TrueDiv(w.new_profit, w.new_sales, 100000) ELSE Finite(0),
               TrueDiv(w.base_profit, w.base_sales, 100000))]

\* lines 133-301: view_mode == "Executive Summary"
ExecutiveSummary ==
    /\ pc = "view_mode"
    /\ data' = [data EXCEPT !.shown =
                   [view_mode |-> "Executive Summary",
                    kpis |-> Kpis(data.sales),
                    region_data |-> RegionData(data.sales)]]
    /\ pc' = "footer"
    /\ UNCHANGED <<generatorVars, inp>>

\* lines 303-411: view_mode == "Detailed Analysis": sums by product,
\* sub-category, quarter and month
DetailedAnalysis ==
    /\ pc = "view_mode"
    /\ data' = [data EXCEPT !.shown = [view_mode |-> "Detailed Analysis"]]
    /\ pc' = "footer"
    /\ UNCHANGED <<generatorVars, inp>>

\* lines 413-529: view_mode == "Drill-Down Explorer": sums by category and
\* sub-category or by region and state
DrillDownExplorer ==
    /\ pc = "view_mode"
    /\ data' = [data EXCEPT !.shown = [view_mode |-> "Drill-Down Explorer"]]
    /\ pc' = "footer"
    /\ UNCHANGED <<generatorVars, inp>>

\* the least, the default and the greatest position of a slider
Positions(S) ==
    {0} \cup {x \in S : \A y \in S : x <= y} \cup {x \in S : \A y \in S : x >= y}

\* lines 531-641: view_mode == "What-If Scenario"
WhatIfScenario ==
    /\ pc = "view_mode"
    /\ \E price_change \in Positions(price_slider),
          volume_change \in Positions(volume_slider),
          cost_change \in Positions(cost_slider) :
          data' = [data EXCEPT !.shown =
              [view_mode |-> "What-If Scenario",
               sliders |-> <<price_change, volume_change, cost_change>>,
               scenario |-> WhatIf(ColSum(data.sales, "Sales"),
                                   ColSum(data.sales, "Profit"),
                                   price_change, volume_change, cost_change),
               margins |-> Margins(WhatIf(ColSum(data.sales, "Sales"),
                                          ColSum(data.sales, "Profit"),
                                          price_change, volume_change,
                                          cost_change))]]
    /\ pc' = "footer"
    /\ UNCHANGED <<generatorVars, inp>>

NextDashboard ==
    \/ DateRangeFilter
    \/ RegionFilter
    \/ CategoryFilter
    \/ SegmentFilter
    \/ ExecutiveSummary
    \/ DetailedAnalysis
    \/ DrillDownExplorer
    \/ WhatIfScenario

SpecDashboard == InitDashboard /\ [][NextDashboard]_vars

----------------------------------------------------------------------------
(* Properties of the dashboard *)

\* the filters the user's choices so far make active, as tests of one row
PassesDate(row) ==
    Len(inp.date_range) = 2 =>
        row.Order_Date \in inp.date_range[1]..inp.date_range[2]
PassesRegion(row) ==
    inp.selected_region # "All" => row.Region = inp.selected_region
PassesCategory(row) ==
    inp.selected_category # "All" => row.Category = inp.selected_category
PassesSegment(row) == row.Segment \in inp.segments

\* the loaded rows that pass all of the given tests
Surviving(Test(_)) == SelectSeq(data.loaded, Test)

\* the widgets the script has gone through
PastRegion == pc \notin {"date_range", "selected_region"}
PastCategory == pc \notin {"date_range", "selected_region", "selected_category"}
PastSegment == pc \in {"view_mode", "footer"}

\* C24: once the four sidebar filters have been applied (date range, region,
\* category, segment, in that order) the working set `sales` is exactly the
\* loaded rows, in their order, that satisfy every active filter: the order
\* date within the inclusive range when both ends are chosen, the region and
\* the category equal to the selection unless it is 'All', the segment
\* among the selected ones.  No step adds a row to the working set.  The
\* regions offered are those of the rows that passed the date filter, the
\* categories those of the rows that also passed the region filter, the
\* segments those of the rows that also passed the category filter.
C24_FiltersConjunction ==
    /\ [](PastSegment =>
            data.sales = Surviving(LAMBDA row : /\ PassesDate(row)
                                                /\ PassesRegion(row)
                                                /\ PassesCategory(row)
                                                /\ PassesSegment(row)))
    /\ [](PastRegion =>
            data.regions =
                <<"All">> \o sorted(Unique(Surviving(PassesDate), "Region")))
    /\ [](PastCategory =>
            data.categories =
                <<"All">> \o sorted(Unique(
                    Surviving(LAMBDA row : PassesDate(row) /\ PassesRegion(row)),
                    "Category")))
    /\ [](PastSegment =>
            data.options =
                Unique(Surviving(LAMBDA row : /\ PassesDate(row)
                                              /\ PassesRegion(row)
                                              /\ PassesCategory(row)),
                       "Segment"))
    /\ [][\A k \in 1..Len(data.sales') :
            \E j \in 1..Len(data.sales) : data.sales'[k] = data.sales[j]]_vars

\* every filter is active, a row is left, and the segment filter has
\* dropped a row that the other three let through
C24_Witness ==
    /\ pc = "footer"
    /\ Len(inp.date_range) = 2
    /\ inp.selected_region # "All"
    /\ inp.selected_category # "All"
    /\ inp.segments # {}
    /\ inp.segments # data.options
    /\ Len(data.sales) >= 1
    /\ Len(data.sales) < Len(data.loaded)

\* the What-If view has been drawn
WhatIfShown == pc = "footer" /\ data.shown.view_mode = "What-If Scenario"

\* the totals of the working set, in cents
BaseSales == ColSum(data.sales, "Sales")
BaseProfit == ColSum(data.sales, "Profit")

\* C25: in the What-If view, with amounts in 1/10000 of a cent and
\* percentages as whole numbers, projected sales = base sales * (100 +
\* price) * (100 + volume), projected cost = (base sales - base profit) *
\* (100 + cost) * (100 + volume), projected profit = projected sales -
\* projected cost; with the three sliders at 0 projected sales and profit
\* are the base sales and profit; with only the volume slider moved, sales
\* and profit are both the base value times (100 + volume) / 100.
C25_ScenarioArithmetic ==
    WhatIfShown =>
        LET w == data.shown.scenario
            price == data.shown.sliders[1]
            volume == data.shown.sliders[2]
            cost == data.shown.sliders[3]
        IN  /\ w.new_sales = BaseSales * (100 + price) * (100 + volume)
            /\ w.new_cost =
                   (BaseSales - BaseProfit) * (100 + cost) * (100 + volume)
            /\ w.new_profit = w.new_sales - w.new_cost
            /\ (price = 0 /\ volume = 0 /\ cost = 0) =>
                   /\ w.new_sales = 10000 * BaseSales
                   /\ w.new_profit = 10000 * BaseProfit
            /\ (price = 0 /\ cost = 0) =>
                   /\ w.new_sales = 100 * (100 + volume) * BaseSales
                   /\ w.new_profit = 100 * (100 + volume) * BaseProfit

\* only the volume slider is moved, on a working set that has sales and a
\* profit
C25_Witness ==
    /\ WhatIfShown
    /\ data.shown.sliders = <<0, 50, 0>>
    /\ BaseSales > 0
    /\ BaseProfit # 0
    /\ data.shown.scenario.new_profit # 10000 * BaseProfit

\* a view has been drawn, and the numbers it shows that are quotients
ViewShown == pc = "footer"

Quotients ==
    IF data.shown.view_mode = "Executive Summary"
    THEN {data.shown.kpis.avg_order, data.shown.kpis.profit_margin}
            \cup {data.shown.region_data[r].Profit_Margin :
                     r \in DOMAIN data.shown.region_data}
    ELSE IF data.shown.view_mode = "What-If Scenario"
    THEN {data.shown.margins.margin, data.shown.margins.base_margin,
          data.shown.margins.margin_delta}
    ELSE {}

\* C26: whatever the filters leave, no view divides by zero: every quotient
\* a view shows is a number; the Executive Summary shows an average order
\* value of 0 when there are no orders and a margin of 0 when total sales
\* are not positive; the What-If view's projected and base margins are
\* computed without a division by a sales total of zero.
C26_NoDivisionByZero ==
    ViewShown =>
        /\ \A q \in Quotients : q.kind = "finite"
        /\ data.shown.view_mode = "Executive Summary" =>
              /\ data.shown.kpis.total_orders = 0 =>
                     data.shown.kpis.avg_order = Finite(0)
              /\ data.shown.kpis.total_sales <= 0 =>
                     data.shown.kpis.profit_margin = Finite(0)

----------------------------------------------------------------------------
(* part_a_advanced_charts.py: the script reads the CSV files and builds its *)
(* charts one after the other.  Modelled are the two charts whose data the  *)
(* script assembles itself: the Sankey diagram (chart 11) and the yearly    *)
(* waterfall (chart 14).  `inp` holds the frames read from the files,       *)
(* `data` the charts built so far.  Money is in cents.                      *)

\* largest number of rows in financial_data.csv when the charts are built
MaxMonths == 3

\* monthly net profits financial_data.csv is made of
NetProfits == {1000, 2500, 4000}

\* the financial files the script may find: months in ascending order from
\* 2022 on, the next row in the same year or in the following one
RECURSIVE FinancialFiles(_)
FinancialFiles(n) ==
    IF n = 1
    THEN {<< [Month |-> <<2022, 1, 1>>, Net_Profit |-> p] >> : p \in NetProfits}
    ELSE {Append(f, [Month |-> <<f[n - 1].Month[1] + dy, n, 1>>,
                     Net_Profit |-> p]) :
             f \in FinancialFiles(n - 1), dy \in {0, 1}, p \in NetProfits}

\* Series.unique().tolist(): the values in the order of their first
\* appearance
RECURSIVE UniqueList(_, _)
UniqueList(df, col) ==
    IF Len(df) = 0 THEN <<>>
    ELSE CHOOSE r \in
           {IF \E k \in 1..Len(rest) : rest[k] = df[Len(df)][col]
            THEN rest ELSE Append(rest, df[Len(df)][col]) :
               rest \in {UniqueList(SubSeq(df, 1, Len(df) - 1), col)}} : TRUE

\* variant: positions counted from 1
indexFromOne(list, x) ==
    CHOOSE k \in 1..Len(list) : list[k] = x /\ \A j \in 1..(k - 1) : list[j] # x

\* list.index(x): the position, counted from 0, of the first x in the list
index(list, x) ==
    (CHOOSE k \in 1..Len(list) :
        list[k] = x /\ \A j \in 1..(k - 1) : list[j] # x) - 1

\* df.groupby([a, b])['Sales'].sum().reset_index(): one row for every pair
\* of values that occurs together, sorted by a, then by b
GroupBySum(df, a, b) ==
    LET as == sorted(Unique(df, a))
        bs == sorted(Unique(df, b))
        pairs == [k \in 1..(Len(as) * Len(bs)) |->
                    <<as[((k - 1) \div Len(bs)) + 1], bs[((k - 1) % Len(bs)) + 1]>>]
        Rows(p) == SelectSeq(df, LAMBDA row : row[a] = p[1] /\ row[b] = p[2])
        present == SelectSeq(pairs, LAMBDA p : Len(Rows(p)) > 0)
    IN  [k \in 1..Len(present) |->
            (a :> present[k][1]) @@ (b :> present[k][2])
                @@ ("Sales" :> ColSum(Rows(present[k]), "Sales"))]

\* one of the two loops of lines 130-140: a link for every row of the
\* grouped frame g, from the node of its column a to the node of column b
Links(g, all_nodes, a, b) ==
    [k \in 1..Len(g) |-> [source |-> index(all_nodes, g[k][a]),
                          target |-> index(all_nodes, g[k][b]),
                          value  |-> g[k].Sales]]

\* lines 116-159: the nodes and the links of the Sankey diagram
Sankey(sales) ==
    LET all_nodes == UniqueList(sales, "Segment") \o UniqueList(sales, "Region")
                        \o UniqueList(sales, "Category")
        links == Links(GroupBySum(sales, "Segment", "Region"),
                       all_nodes, "Segment", "Region")
                 \o Links(GroupBySum(sales, "Region", "Category"),
                          all_nodes, "Region", "Category")
    IN  [chart |-> "sankey",
         label  |-> all_nodes,
         source |-> [k \in 1..Len(links) |-> links[k].source],
         target |-> [k \in 1..Len(links) |-> links[k].target],
         value  |-> [k \in 1..Len(links) |-> links[k].value]]

\* financial['Year'] = financial['Month'].dt.year
Year(row) == row.Month[1]

\* financial.groupby('Year')['Net_Profit'].sum().reset_index(): one row
\* per year that has rows, in ascending order of the year
yearly(financial) ==
    LET first == Year(financial[1])
        Of(y) == SelectSeq(financial, LAMBDA row : Year(row) = y)
        years == SelectSeq([k \in 1..Len(financial) |-> first + k - 1],
                           LAMBDA y : Len(Of(y)) > 0)
    IN  [k \in 1..Len(years) |->
            [Year |-> years[k], Net_Profit |-> ColSum(Of(years[k]), "Net_Profit")]]

\* variant: every change is taken from the first year
WaterfallYearlyFromFirst(financial) ==
    LET y == yearly(financial)
    IN  [chart |-> "waterfall",
         y |-> [i \in 1..(Len(y) + 1) |->
                  IF i = 1 THEN y[1].Net_Profit
                  ELSE IF i <= Len(y) THEN y[i].Net_Profit - y[1].Net_Profit
                  ELSE y[Len(y)].Net_Profit],
         x |-> [i \in 1..(Len(y) + 1) |->
                  IF i = 1 THEN <<y[1].Year, ".0">>
                  ELSE IF i <= Len(y) THEN <<y[i].Year, ".0 Change">>
                  ELSE <<"Final 2024">>],
         measure |-> <<"absolute">>
                       \o [i \in 1..(Len(y) + 1 - 2) |-> "relative"]
                       \o <<"total">>]

\* lines 276-305: the bars of the yearly waterfall; a row of `yearly` holds
\* the year as a float, so its label reads like '2022.0'
WaterfallYearly(financial) ==
    LET y == yearly(financial)
    IN  [chart |-> "waterfall",
         y |-> [i \in 1..(Len(y) + 1) |->
                  IF i = 1 THEN y[1].Net_Profit
                  ELSE IF i <= Len(y) THEN y[i].Net_Profit - y[i - 1].Net_Profit
                  ELSE y[Len(y)].Net_Profit],
         x |-> [i \in 1..(Len(y) + 1) |->
                  IF i = 1 THEN <<y[1].Year, ".0">>
                  ELSE IF i <= Len(y) THEN <<y[i].Year, ".0 Change">>
                  ELSE <<"Final 2024">>],
         measure |-> <<"absolute">>
                       \o [i \in 1..(Len(y) + 1 - 2) |-> "relative"]
                       \o <<"total">>]

\* lines 7-13: the files are read
InitAdvancedCharts ==
    /\ NoRun
    /\ data = <<>>
    /\ \E sales \in LoadedFiles,
          financial \in UNION {FinancialFiles(n) : n \in 1..MaxMonths} :
          inp = [sales |-> sales, financial |-> financial]

\* chart 11
SankeyDiagram ==
    /\ Len(data) = 0
    /\ data' = Append(data, Sankey(inp.sales))
    /\ UNCHANGED <<runVars, inp>>

\* chart 14
YearlyWaterfall ==
    /\ Len(data) = 1
    /\ data' = Append(data, WaterfallYearly(inp.financial))
    /\ UNCHANGED <<runVars, inp>>

SpecAdvancedCharts ==
    InitAdvancedCharts /\ [][SankeyDiagram \/ YearlyWaterfall]_vars

----------------------------------------------------------------------------
(* Properties of the charts *)

RECURSIVE SeqSum(_)
SeqSum(seq) == IF Len(seq) = 0 THEN 0 ELSE seq[1] + SeqSum(Tail(seq))

\* the years of the financial file, and the total Net_Profit of a year
Years == {Year(inp.financial[k]) : k \in 1..Len(inp.financial)}
YearTotal(y) ==
    ColSum(SelectSeq(inp.financial, LAMBDA row : Year(row) = y), "Net_Profit")

\* the i-th year in ascending order
NthYear(i) == CHOOSE y \in Years : Cardinality({z \in Years : z < y}) = i - 1

WaterfallBuilt == Len(data) = 2

\* C27: in the yearly waterfall the first bar is the total Net_Profit of
\* the first year, every following bar the change from the year before,
\* the first bar plus all changes is the total of the last year, and that
\* total is the value of the last bar, whose measure is 'total'; values,
\* labels and measures have the same length, one more than there are years.
C27_WaterfallTelescopes ==
    WaterfallBuilt =>
        LET w == data[2]
            n == Cardinality(Years)
        IN  /\ w.y[1] = YearTotal(NthYear(1))
            /\ w.measure[1] = "absolute"
            /\ \A i \in 2..n :
                  /\ w.y[i] = YearTotal(NthYear(i)) - YearTotal(NthYear(i - 1))
                  /\ w.measure[i] = "relative"
            /\ SeqSum(SubSeq(w.y, 1, n)) = YearTotal(NthYear(n))
            /\ w.y[n + 1] = YearTotal(NthYear(n))
            /\ w.measure[n + 1] = "total"
            /\ Len(w.y) = n + 1
            /\ Len(w.measure) = Len(w.y)
            /\ Len(w.x) = Len(w.y)

\* three years, a fall and then a rise
C27_Witness ==
    /\ WaterfallBuilt
    /\ Cardinality(Years) = 3
    /\ data[2].y[2] < 0
    /\ data[2].y[3] > 0

SankeyBuilt == Len(data) >= 1

\* the label of the node a link index points at
NodeAt(i) == data[1].label[i + 1]

\* the total sales of the rows with value x in column a and y in column b
SalesOf(a, x, b, y) ==
    ColSum(SelectSeq(inp.sales, LAMBDA row : row[a] = x /\ row[b] = y), "Sales")

\* the pairs of values of two columns that occur together in a row
Together(a, b) == {<<inp.sales[k][a], inp.sales[k][b]>> : k \in 1..Len(inp.sales)}

\* the total value of the links whose end (source or target) is node i
Flow(end, i) ==
    SeqSum([k \in 1..Len(data[1].value) |->
               IF data[1][end][k] = i THEN data[1].value[k] ELSE 0])

\* C28: the nodes are the segments, then the regions, then the categories.
\* For every segment and region that occur together there is exactly one
\* link from the node labelled with the segment to the node labelled with
\* the region, carrying their total sales, likewise for every region and
\* category, and there is no other link; a segment -> region link starts in
\* the block of segment nodes and ends in the block of region nodes, a
\* region -> category link starts in the block of region nodes and ends
\* in the block of category nodes.  For every region node the value flowing
\* in equals the value flowing out, both being the region's total sales.
C28_SankeyLinksAndBalance ==
    SankeyBuilt =>
        LET s == data[1]
            nseg == Cardinality(Unique(inp.sales, "Segment"))
            nreg == Cardinality(Unique(inp.sales, "Region"))
            ncat == Cardinality(Unique(inp.sales, "Category"))
            n1 == Cardinality(Together("Segment", "Region"))
            n2 == Cardinality(Together("Region", "Category"))
        IN  /\ Len(s.label) = nseg + nreg + ncat
            /\ Len(s.source) = n1 + n2
            /\ Len(s.target) = n1 + n2
            /\ Len(s.value) = n1 + n2
            /\ \A k \in 1..n1 :
                  /\ s.source[k] \in 0..(nseg - 1)
                  /\ s.target[k] \in nseg..(nseg + nreg - 1)
            /\ \A k \in (n1 + 1)..(n1 + n2) :
                  /\ s.source[k] \in nseg..(nseg + nreg - 1)
                  /\ s.target[k] \in (nseg + nreg)..(nseg + nreg + ncat - 1)
            /\ \A p \in Together("Segment", "Region") :
                  \E k \in 1..n1 :
                     /\ NodeAt(s.source[k]) = p[1]
                     /\ NodeAt(s.target[k]) = p[2]
                     /\ s.value[k] = SalesOf("Segment", p[1], "Region", p[2])
            /\ \A p \in Together("Region", "Category") :
                  \E k \in (n1 + 1)..(n1 + n2) :
                     /\ NodeAt(s.source[k]) = p[1]
                     /\ NodeAt(s.target[k]) = p[2]
                     /\ s.value[k] = SalesOf("Region", p[1], "Category", p[2])
            /\ \A i \in nseg..(nseg + nreg - 1) :
                  /\ Flow("target", i) = Flow("source", i)
                  /\ Flow("target", i) =
                        SalesOf("Region", NodeAt(i), "Region", NodeAt(i))

\* a region that one segment sells into and that sells two categories
C28_Witness ==
    /\ SankeyBuilt
    /\ \E i \in 0..(Len(data[1].label) - 1) :
          /\ NodeAt(i) \in Unique(inp.sales, "Region")
          /\ Cardinality({k \in 1..Len(data[1].target) : data[1].target[k] = i}) = 1
          /\ Cardinality({k \in 1..Len(data[1].source) : data[1].source[k] = i}) = 2

=============================================================================
